---- MODULE Spec2Model ----
(***************************************************************************)
(* HealthTrack Pro: the food-log and goal services (operations/food_log.py,*)
(* operations/goal_tracking.py) over the SQLAlchemy session they share, the*)
(* meal planner (operations/meal_planning.py) and the commands of cli.py,  *)
(* each of which works in a session of its own.                            *)
(*                                                                         *)
(* The database holds the committed rows (users, entries, goals).  The     *)
(* session (sessionmaker(autocommit=False, autoflush=False)) holds the     *)
(* attribute changes made to loaded objects that no commit has flushed yet *)
(* (pending) and whether it still accepts work (active): a commit whose    *)
(* flush fails rolls the transaction back, discards the session's state    *)
(* and leaves the session closed to further work until the caller issues   *)
(* rollback().  The services never roll back themselves.                   *)
(*                                                                         *)
(* The tables are the ones the model classes declare (models/*.py), in     *)
(* SQLite: CHECK and UNIQUE constraints are enforced at the flush, foreign *)
(* keys are not, and a new row takes the id max(id) + 1.                   *)
(*                                                                         *)
(* Optional values are sequences: <<>> is None, <<v>> is the value v.      *)
(* A percentage is held in hundredths of a percent (10000 is 100).         *)
(* Timestamps (created_at, updated_at) are not modelled.                   *)
(***************************************************************************)
EXTENDS Integers, Sequences, FiniteSets, TLC

VARIABLES
    users,      \* table users: id -> name
    entries,    \* table food_entries: id -> row
    goals,      \* table goals: id -> row
    pending,    \* session: entry id -> food_name assigned but not flushed
    active,     \* session: FALSE after a failed flush, until rollback()
    lastSet,    \* history: user_id -> <<daily, weekly>> of the last set_goals call
    inserted,   \* history: the ids of the stored entries, in the order of their insertion
    last        \* history: the last call and its outcome

vars == <<users, entries, goals, pending, active, lastSet, inserted, last>>

\* ---------------------------------------------------------------- bounds
\* entry ids run from 1 to MaxId: log_meal is not taken once the next id exceeds it
MaxId == 2

UserIds == {1, 2}
Dates == {1, 2}
FoodNames == {"apple", "bread"}
\* calories the calls of Spec and SpecGoals supply, and those of SpecProgress
LogCals == {-1, 0, 1}
ProgressCals == {-1, 0, 1, 2}
\* the <<daily, weekly>> pairs set_goals is called with
GoalInputs == {<<-1, 5>>, <<0, 0>>, <<3, 5>>}

\* the weeks that are asked about start on day 1 or 2; entries fall on the days
\* around the ends of those weeks
WeekStarts == {1, 2}
WeekDates == {0, 1, 7, 8}
WeekCals == {1, 2}
WeeklyGoals == {<<3, -1>>, <<3, 0>>, <<3, 2>>}

\* the user names the commands are given, and the calories of entry_update
Names == {"ann", "bob"}
CliCals == {-1, 0, 2}

\* the limits get_recent_logs is asked with, the days a range starts and ends on
Limits == 0 .. MaxId + 1
RangeDays == 0 .. 3

\* the calorie targets and the calories already eaten that a meal plan is
\* asked for: their differences lie on both sides of every threshold
Targets == {200, 201, 700, 1200, 1350, 1351, 1600, 2250}
Existing == {0, 1, 650}

None == <<>>
Some(v) == <<v>>
IsNone(x) == x = <<>>
Opt(S) == {None} \cup {Some(v) : v \in S}

Max(a, b) == IF a >= b THEN a ELSE b
Min(a, b) == IF a <= b THEN a ELSE b

SetMax(S) == CHOOSE m \in S : \A x \in S : x <= m
SetMin(S) == CHOOSE m \in S : \A x \in S : m <= x

EmptyFn == [x \in {} |-> 0]

\* date.today(): the calls are made on the last day of the modelled calendar
Today == SetMax(Dates)

\* ---------------------------------------------------------------- storage
\* the first id that no row has (the gaps that deletions leave are filled)
NextIdFirstFree(table) == SetMin({i \in 1 .. Cardinality(DOMAIN table) + 1 :
                                     i \notin DOMAIN table})

\* INTEGER PRIMARY KEY without AUTOINCREMENT: the next rowid is max(rowid) + 1
NextId(table) == IF DOMAIN table = {} THEN 1 ELSE SetMax(DOMAIN table) + 1

\* FoodEntry.__table_args__: the CHECK constraints of table food_entries
CheckConstraints(row) ==
    /\ row.calories > 0
    /\ row.protein >= 0
    /\ row.carbs >= 0
    /\ row.fats >= 0

\* FoodEntry(...): a new row object with the column defaults
FoodEntry(food_name, calories, date, user_id) ==
    [food_name |-> food_name, calories |-> calories, date |-> date,
     protein |-> 0, carbs |-> 0, fats |-> 0, user_id |-> user_id]

\* Goal(user_id=...): a new goal object, every other column NULL until assigned
Goal(user_id) ==
    [user_id |-> user_id, daily_calories |-> None, weekly_calories |-> None,
     protein_goal |-> None, carb_goal |-> None, fat_goal |-> None]

\* Goal.user_id is unique
GoalsUnique(g) ==
    \A i, j \in DOMAIN g : g[i].user_id = g[j].user_id => i = j

\* The rows of tbl as a flush writes them: the session's unflushed attribute
\* changes (pend) applied to the rows that are still there
Flushed(tbl, pend) ==
    [i \in DOMAIN tbl |->
        IF i \in DOMAIN pend THEN [tbl[i] EXCEPT !.food_name = pend[i]]
        ELSE tbl[i]]

\* ---------------------------------------------------------------- history
NoCall == [op |-> "none", res |-> "none", user |-> 0, id |-> 0,
           food |-> None, cal |-> None, date |-> None]

\* The last call: the operation, its outcome (the exception raised, or what it
\* returned), its user_id, the entry or goal id it was given or generated, the
\* calories it supplied once the call came to look at them, and the food name
\* and date it supplied when it returned a row.
Call(op, res, user, id, food, cal, date) ==
    [op |-> op, res |-> res, user |-> user, id |-> id,
     food |-> IF res = "entry" THEN food ELSE None,
     cal |-> IF res \in {"None", "False"} THEN None ELSE cal,
     date |-> IF res = "entry" THEN date ELSE None]

\* the elements of the sequence s that are in the set S, in the order of s
RECURSIVE Restrict(_, _)
Restrict(s, S) ==
    IF s = <<>> THEN <<>>
    ELSE IF Head(s) \in S THEN <<Head(s)>> \o Restrict(Tail(s), S)
    ELSE Restrict(Tail(s), S)

\* The insertion order after a transaction that turns table old into table new
\* (one row added or one row deleted at most): the rows that are gone leave
\* it, the row that is new comes last.
Track(order, old, new) ==
    LET kept == Restrict(order, DOMAIN new)
        added == DOMAIN new \ DOMAIN old
    IN IF added = {} THEN kept ELSE kept \o <<CHOOSE i \in added : TRUE>>

\* ---------------------------------------------------------------- session
\* Every UPDATE of the flush finds its row (a row that another session has
\* deleted in the meantime makes the flush fail with StaleDataError)
Matched(pend) == DOMAIN pend \subseteq DOMAIN entries

\* What the flush of a commit requires of the rows it writes
CommitOk(tbl, g) ==
    /\ \A i \in DOMAIN tbl : CheckConstraints(tbl[i])
    /\ GoalsUnique(g)
    /\ Matched(pending)

\* Session.commit() of a call that leaves the tables as tbl and g: the flush
\* writes them and the call returns (ok); or a constraint fails, the
\* transaction is rolled back, IntegrityError is raised (failed) and the
\* session is closed.  Either way no unflushed change is left.
Commit(tbl, g, ok, failed) ==
    /\ IF CommitOk(tbl, g)
       THEN /\ entries' = tbl
            /\ goals' = g
            /\ inserted' = Track(inserted, entries, tbl)
            /\ active' = TRUE
            /\ last' = ok
       ELSE /\ UNCHANGED <<entries, goals, inserted>>
            /\ active' = FALSE
            /\ last' = failed
    /\ pending' = EmptyFn
    /\ UNCHANGED users

\* the caller's db.rollback(): discard the session's state, reopen the session
rollback ==
    /\ pending' = EmptyFn
    /\ active' = TRUE
    /\ last' = Call("rollback", "none", 0, 0, None, None, None)
    /\ UNCHANGED <<users, entries, goals, lastSet, inserted>>

\* ---------------------------------------------------------------- FoodLogOps
\* the validation with its bound off by one
NegativeBelowMinusOne(calories) == calories < -1

\* "if calories < 0: raise ValueError" of log_meal and update_entry
Negative(calories) == calories < 0

\* FoodLogOps.log_meal(user_id, food_name, calories, meal_date)
log_meal(user_id, food_name, calories, meal_date) ==
    /\ active
    /\ IF Negative(calories)
       THEN /\ last' = Call("log_meal", "ValueError", user_id, 0,
                            Some(food_name), Some(calories), meal_date)
            /\ UNCHANGED <<users, entries, goals, pending, active, lastSet, inserted>>
       ELSE LET id == NextId(entries)
                entry == FoodEntry(food_name, calories,
                                   IF IsNone(meal_date) THEN Today ELSE meal_date[1],
                                   user_id)
            IN /\ id <= MaxId
               /\ Commit(Flushed(entries, pending) @@ (id :> entry), goals,
                         Call("log_meal", "entry", user_id, id,
                              Some(food_name), Some(calories), meal_date),
                         Call("log_meal", "IntegrityError", user_id, 0,
                              Some(food_name), Some(calories), meal_date))
               /\ UNCHANGED lastSet

\* the lookup without its user_id filter
OwnedById(entry_id, user_id) == entry_id \in DOMAIN entries

\* the row update_entry and delete_entry load:
\* filter(FoodEntry.id == entry_id, FoodEntry.user_id == user_id).first()
Owned(entry_id, user_id) ==
    /\ entry_id \in DOMAIN entries
    /\ entries[entry_id].user_id = user_id

\* FoodLogOps.update_entry(entry_id, user_id, food, calories, meal_date).
\* meal_type is assigned to an attribute that is no column of FoodEntry and is
\* never written to the table.
update_entry(entry_id, user_id, food, calories, meal_date) ==
    /\ active
    /\ IF ~Owned(entry_id, user_id)
       THEN /\ last' = Call("update_entry", "None", user_id, entry_id,
                            food, calories, meal_date)
            /\ UNCHANGED <<users, entries, goals, pending, active, lastSet, inserted>>
       ELSE LET pend1 == IF IsNone(food) THEN pending
                         ELSE (entry_id :> food[1]) @@ pending
            IN IF ~IsNone(calories) /\ Negative(calories[1])
               THEN /\ pending' = pend1
                    /\ last' = Call("update_entry", "ValueError", user_id, entry_id,
                                    food, calories, meal_date)
                    /\ UNCHANGED <<users, entries, goals, active, lastSet, inserted>>
               ELSE LET cur == Flushed(entries, pend1)
                        row == [cur[entry_id] EXCEPT
                                  !.calories = IF IsNone(calories) THEN @
                                               ELSE calories[1],
                                  !.date = IF IsNone(meal_date) THEN @
                                           ELSE meal_date[1]]
                    IN /\ Commit([cur EXCEPT ![entry_id] = row], goals,
                                 Call("update_entry", "entry", user_id, entry_id,
                                      food, calories, meal_date),
                                 Call("update_entry", "IntegrityError", user_id,
                                      entry_id, food, calories, meal_date))
                       /\ UNCHANGED lastSet

\* FoodLogOps.delete_entry(entry_id, user_id)
delete_entry(entry_id, user_id) ==
    /\ active
    /\ IF ~Owned(entry_id, user_id)
       THEN /\ last' = Call("delete_entry", "False", user_id, entry_id,
                            None, None, None)
            /\ UNCHANGED <<users, entries, goals, pending, active, lastSet, inserted>>
       ELSE LET rest == [i \in DOMAIN entries \ {entry_id} |-> entries[i]]
            IN /\ Commit(Flushed(rest, pending), goals,
                         Call("delete_entry", "True", user_id, entry_id,
                              None, None, None),
                         Call("delete_entry", "IntegrityError", user_id, entry_id,
                              None, None, None))
               /\ UNCHANGED lastSet

\* FoodLogOps.get_daily_logs(user_id, target_date): the ids of the rows, in the
\* order of the result (order_by(FoodEntry.id))
RECURSIVE SortedIds(_)
SortedIds(S) ==
    IF S = {} THEN <<>> ELSE <<SetMin(S)>> \o SortedIds(S \ {SetMin(S)})

\* order_by(FoodEntry.date, FoodEntry.id): row i comes before row j
ByDateId(i, j) ==
    \/ entries[i].date < entries[j].date
    \/ entries[i].date = entries[j].date /\ i < j

RECURSIVE OrderByDateId(_)
OrderByDateId(S) ==
    IF S = {} THEN <<>>
    ELSE LET m == CHOOSE i \in S : \A j \in S \ {i} : ByDateId(i, j)
         IN <<m>> \o OrderByDateId(S \ {m})

\* a result in the opposite order: order_by(date.desc(), id.desc()) is the
\* reverse of order_by(date, id), the id being unique
Reverse(s) == [k \in 1 .. Len(s) |-> s[Len(s) + 1 - k]]

get_daily_logs(user_id, target_date) ==
    SortedIds({i \in DOMAIN entries :
                  /\ entries[i].user_id = user_id
                  /\ entries[i].date = target_date})

\* the range with its end day left out
LogsInRangeEndExcluded(user_id, start_date, end_date) ==
    OrderByDateId({i \in DOMAIN entries :
                      /\ entries[i].user_id = user_id
                      /\ entries[i].date >= start_date
                      /\ entries[i].date < end_date})

\* FoodLogOps.get_logs_in_range(user_id, start_date, end_date): the ids of the
\* rows, in the order of the result
get_logs_in_range(user_id, start_date, end_date) ==
    OrderByDateId({i \in DOMAIN entries :
                      /\ entries[i].user_id = user_id
                      /\ entries[i].date >= start_date
                      /\ entries[i].date <= end_date})

\* .limit(limit) for limit >= 0: the first limit rows of the result
Limit(s, limit) == SubSeq(s, 1, Min(limit, Len(s)))

\* the newest rows by id alone
RecentLogsByIdOnly(user_id, limit) ==
    Limit(Reverse(SortedIds({i \in DOMAIN entries : entries[i].user_id = user_id})),
          limit)

\* FoodLogOps.get_recent_logs(user_id, limit): the ids of the rows, in the
\* order of the result
get_recent_logs(user_id, limit) ==
    Limit(Reverse(OrderByDateId({i \in DOMAIN entries :
                                    entries[i].user_id = user_id})),
          limit)

\* The objects a query of the services' session returns for the ids it has
\* selected: the session hands out the objects it holds, so a row shows the
\* attribute changes that are assigned but not flushed yet
Loaded(ids) ==
    [k \in 1 .. Len(ids) |->
        [id |-> ids[k], row |-> Flushed(entries, pending)[ids[k]]]]

\* ---------------------------------------------------------------- GoalOps
\* the lookup that finds no row
FirstGoalNone(g, user_id) == None

\* query(Goal).filter(Goal.user_id == user_id).first(): the id of the row, or None
FirstGoal(g, user_id) ==
    LET ids == {i \in DOMAIN g : g[i].user_id = user_id}
    IN IF ids = {} THEN None ELSE Some(SetMin(ids))

\* the assignments without the one to weekly_calories
AssignDailyOnly(goal, daily, weekly) ==
    [goal EXCEPT !.daily_calories = Some(daily)]

\* goal.daily_calories = daily; goal.weekly_calories = weekly
Assign(goal, daily, weekly) ==
    [goal EXCEPT !.daily_calories = Some(daily), !.weekly_calories = Some(weekly)]

\* GoalOps.set_goals(user_id, daily, weekly)
set_goals(user_id, daily, weekly) ==
    /\ active
    /\ LET found == FirstGoal(goals, user_id)
           id == IF IsNone(found) THEN NextId(goals) ELSE found[1]
           goal == IF IsNone(found) THEN Goal(user_id) ELSE goals[id]
           g == (id :> Assign(goal, daily, weekly)) @@ goals
           tbl == Flushed(entries, pending)
       IN /\ Commit(tbl, g,
                    Call("set_goals", "goal", user_id, id, None, None, None),
                    Call("set_goals", "IntegrityError", user_id, 0, None, None, None))
          /\ lastSet' = IF CommitOk(tbl, g)
                        THEN (user_id :> <<daily, weekly>>) @@ lastSet
                        ELSE lastSet

\* GoalOps.get_goals(user_id): the row, or None
get_goals(user_id) ==
    LET found == FirstGoal(goals, user_id)
    IN IF IsNone(found) THEN None ELSE Some(goals[found[1]])

\* sum(e.calories for e in entries) over a query result (a sequence of ids)
RECURSIVE SumCalories(_)
SumCalories(ids) ==
    IF ids = <<>> THEN 0 ELSE entries[Head(ids)].calories + SumCalories(Tail(ids))

\* round(total / goal * 100, 2) for goal > 0, in hundredths: the nearest
\* hundredth, a tie going to the even one
Round2(total, goal) ==
    LET n == total * 10000
        q == n \div goal
        r == n - q * goal
    IN IF 2 * r < goal THEN q
       ELSE IF 2 * r > goal THEN q + 1
       ELSE IF q % 2 = 0 THEN q ELSE q + 1

\* the percentage without its cap
PercentageUncapped(total, goal) == Round2(total, goal)

\* min(100, round(total / goal * 100, 2))
Percentage(total, goal) == Min(10000, Round2(total, goal))

\* the truth value Python gives a nullable integer column: None and 0 are false
Truthy(x) == ~IsNone(x) /\ x[1] # 0

\* GoalOps.get_progress(user_id, target_date)
get_progress(user_id, target_date) ==
    LET g == get_goals(user_id)
        logs == get_daily_logs(user_id, target_date)
        total_calories == IF logs # <<>> THEN SumCalories(logs) ELSE 0
        set == ~IsNone(g) /\ Truthy(g[1].daily_calories)
        daily == g[1].daily_calories[1]
    IN [date |-> target_date,
        total_calories |-> total_calories,
        daily_goal |-> IF ~IsNone(g) THEN g[1].daily_calories ELSE None,
        remaining |-> IF set THEN Some(Max(0, daily - total_calories)) ELSE None,
        progress_percentage |->
            IF set /\ daily > 0 THEN Some(Percentage(total_calories, daily))
            ELSE None]

\* the week that ends a day late
WeekEndSevenLater(start_date) == start_date + 7

\* date.fromordinal(start_date.toordinal() + 6), start_date + timedelta(days=6)
WeekEnd(start_date) == start_date + 6

\* GoalOps.get_weekly_progress(user_id, start_date)
get_weekly_progress(user_id, start_date) ==
    LET g == get_goals(user_id)
        end_date == WeekEnd(start_date)
        logs == get_logs_in_range(user_id, start_date, end_date)
        total_calories == IF logs # <<>> THEN SumCalories(logs) ELSE 0
        set == ~IsNone(g) /\ Truthy(g[1].weekly_calories)
        weekly == g[1].weekly_calories[1]
    IN [start_date |-> start_date,
        end_date |-> end_date,
        total_calories |-> total_calories,
        weekly_goal |-> IF ~IsNone(g) THEN g[1].weekly_calories ELSE None,
        remaining |-> IF set THEN Some(Max(0, weekly - total_calories)) ELSE None,
        progress_percentage |->
            IF set /\ weekly > 0 THEN Some(Percentage(total_calories, weekly))
            ELSE None]

\* ---------------------------------------------------------------- MealPlanner
\* sum(e.calories for e in ...) over a set of rows
RECURSIVE CaloriesOf(_)
CaloriesOf(S) ==
    IF S = {} THEN 0
    ELSE LET i == CHOOSE x \in S : TRUE
         IN entries[i].calories + CaloriesOf(S \ {i})

\* e.meal_type can be read: the row object has such an attribute.  FoodEntry
\* declares no meal_type column, so a row loaded from the table has none and
\* reading it raises AttributeError.
HasMealType(row) == "meal_type" \in DOMAIN row

\* MealPlanner.get_weekly_nutrition(user_id, start_date): the exception it
\* raises, or the summary of each day of the week
get_weekly_nutrition(user_id, start_date) ==
    LET end_date == WeekEnd(start_date)
        rows == {i \in DOMAIN entries :
                    /\ entries[i].user_id = user_id
                    /\ entries[i].date >= start_date
                    /\ entries[i].date <= end_date}
        daily_entries(d) == {i \in rows : entries[i].date = d}
    IN IF \E i \in rows : ~HasMealType(entries[i])
       THEN [raised |-> Some("AttributeError"), weekly_data |-> EmptyFn]
       ELSE [raised |-> None,
             weekly_data |->
                [d \in start_date .. end_date |->
                    [total_calories |-> CaloriesOf(daily_entries(d)),
                     meal_count |-> Cardinality(daily_entries(d)),
                     meal_types |-> {entries[i].meal_type : i \in daily_entries(d)}]]]

\* int(calories * 0.8): the product is exact in floating point for every
\* estimate of the table below
Scaled(calories) == (calories * 8) \div 10

\* the adjustment made also when the suggestions just fit
AdjustWhenEqual(total_suggested, remaining_calories) ==
    total_suggested >= remaining_calories

\* "if total_suggested > remaining_calories"
Adjust(total_suggested, remaining_calories) ==
    total_suggested > remaining_calories

\* MealPlanner.suggest_meal_plan(user_id, target_date, calorie_target,
\* existing_calories): the value it returns
Suggestions(calorie_target, existing_calories) ==
    LET remaining_calories == calorie_target - existing_calories
        breakfast == IF remaining_calories >= 1600 THEN 300 ELSE 200
        lunch == IF remaining_calories >= 1200 THEN 450 ELSE 350
        dinner == IF remaining_calories >= 700 THEN 550 ELSE 400
        snack == 150
        total_suggested == breakfast + lunch + dinner + snack
        estimate(c) == IF Adjust(total_suggested, remaining_calories)
                       THEN Scaled(c) ELSE c
    IN [breakfast |-> [suggestion |-> "Greek yogurt with berries and granola",
                       estimated_calories |-> estimate(breakfast)],
        lunch |-> [suggestion |-> "Grilled chicken salad with olive oil dressing",
                   estimated_calories |-> estimate(lunch)],
        dinner |-> [suggestion |-> "Salmon with quinoa and steamed vegetables",
                    estimated_calories |-> estimate(dinner)],
        snack |-> [suggestion |-> IF remaining_calories > 200
                                  THEN "Handful of almonds" ELSE "Apple slices",
                   estimated_calories |-> estimate(snack)]]

\* the call: it reads and writes nothing of the session or the tables
suggest_meal_plan(user_id, target_date, calorie_target, existing_calories) ==
    /\ last' = [op |-> "suggest_meal_plan", user |-> user_id,
                calorie_target |-> calorie_target,
                existing_calories |-> existing_calories,
                res |-> Suggestions(calorie_target, existing_calories)]
    /\ UNCHANGED <<users, entries, goals, pending, active, lastSet, inserted>>

\* ---------------------------------------------------------------- cli
\* Every command opens a session of its own (SessionLocal()) and closes it
\* when it ends: it sees the committed rows, its unflushed changes die with
\* it, and the session of the services is none of its business.

\* The last command: its outcome, the name it was given (user_create), the
\* entry or user id it was given or generated, the calories it supplied.
Command(op, res, name, id, cal) ==
    [op |-> op, res |-> res, user |-> 0, id |-> id, food |-> None,
     cal |-> cal, date |-> None, name |-> name]

\* the validator with its bound off by one
ValidateBelowMinusOne(value) == value < -1

\* FoodEntry.validate_nutrition raises ValueError: "if value < 0"
validate_nutrition(value) == value < 0

\* User.name is unique
UsersUnique(u) ==
    \A i, j \in DOMAIN u : u[i] = u[j] => i = j

\* query(User).filter(User.name == name).first(): the id of the row, or None
UserByName(name) ==
    LET ids == {i \in DOMAIN users : users[i] = name}
    IN IF ids = {} THEN None ELSE Some(SetMin(ids))

\* the check that finds no name taken
NameTakenNever(name) == FALSE

\* "if db.query(User).filter(User.name == name).first()" of user_create
NameTaken(name) == ~IsNone(UserByName(name))

\* cli.user_create(name)
user_create(name) ==
    LET id == NextId(users)
        u == (id :> name) @@ users
    IN /\ IF NameTaken(name)
          THEN /\ last' = Command("user_create", "exists", Some(name), 0, None)
               /\ UNCHANGED users
          ELSE IF UsersUnique(u)
               THEN /\ users' = u
                    /\ last' = Command("user_create", "created", Some(name), id, None)
               ELSE /\ last' = Command("user_create", "IntegrityError",
                                       Some(name), 0, None)
                    /\ UNCHANGED users
       /\ UNCHANGED <<entries, goals, pending, active, lastSet, inserted>>

\* cli.entry_add(user, food, calories, date_str), date_str a well-formed date
\* or None
entry_add(user, food, calories, date_str) ==
    LET u == UserByName(user)
        id == NextId(entries)
        entry == FoodEntry(food, calories,
                           IF IsNone(date_str) THEN Today ELSE date_str[1],
                           u[1])
    IN /\ IF IsNone(u)
          THEN /\ last' = Command("entry_add", "BadParameter", None, 0,
                                  Some(calories))
               /\ UNCHANGED <<entries, inserted>>
          ELSE IF validate_nutrition(calories)
          THEN /\ last' = Command("entry_add", "ValueError", None, 0,
                                  Some(calories))
               /\ UNCHANGED <<entries, inserted>>
          ELSE /\ id <= MaxId
               /\ IF CheckConstraints(entry)
                  THEN /\ entries' = (id :> entry) @@ entries
                       /\ inserted' = Track(inserted, entries, entries')
                       /\ last' = Command("entry_add", "added", None, id,
                                          Some(calories))
                  ELSE /\ last' = Command("entry_add", "IntegrityError", None, 0,
                                          Some(calories))
                       /\ UNCHANGED <<entries, inserted>>
       /\ UNCHANGED <<users, goals, pending, active, lastSet>>

\* cli.entry_update(id, food, calories, date).  "if food", "if calories" and
\* "if date" test the truth value (None, "" and 0 are false); the parameter
\* date hides the class date, so date.fromisoformat raises AttributeError.
entry_update(id, food, calories, date) ==
    /\ IF id \notin DOMAIN entries
       THEN /\ last' = Command("entry_update", "not found", None, id, calories)
            /\ UNCHANGED <<entries, inserted>>
       ELSE IF Truthy(calories) /\ validate_nutrition(calories[1])
       THEN /\ last' = Command("entry_update", "ValueError", None, id, calories)
            /\ UNCHANGED <<entries, inserted>>
       ELSE IF ~IsNone(date)
       THEN /\ last' = Command("entry_update", "AttributeError", None, id, calories)
            /\ UNCHANGED <<entries, inserted>>
       ELSE LET row == [entries[id] EXCEPT
                          !.food_name = IF IsNone(food) THEN @ ELSE food[1],
                          !.calories = IF Truthy(calories) THEN calories[1] ELSE @]
            IN IF CheckConstraints(row)
               THEN /\ entries' = [entries EXCEPT ![id] = row]
                    /\ last' = Command("entry_update", "updated", None, id, calories)
                    /\ UNCHANGED inserted
               ELSE /\ last' = Command("entry_update", "IntegrityError", None, id,
                                       calories)
                    /\ UNCHANGED <<entries, inserted>>
    /\ UNCHANGED <<users, goals, pending, active, lastSet>>

\* cli.entry_delete(id)
entry_delete(id) ==
    /\ IF id \notin DOMAIN entries
       THEN /\ last' = Command("entry_delete", "not found", None, id, None)
            /\ UNCHANGED <<entries, inserted>>
       ELSE /\ entries' = [i \in DOMAIN entries \ {id} |-> entries[i]]
            /\ inserted' = Track(inserted, entries, entries')
            /\ last' = Command("entry_delete", "deleted", None, id, None)
    /\ UNCHANGED <<users, goals, pending, active, lastSet>>

\* cli.goal_set(user, daily, weekly): GoalOps.set_goals in the command's session
goal_set(user, daily, weekly) ==
    LET u == UserByName(user)
        found == FirstGoal(goals, u[1])
        id == IF IsNone(found) THEN NextId(goals) ELSE found[1]
        goal == IF IsNone(found) THEN Goal(u[1]) ELSE goals[id]
        g == (id :> Assign(goal, daily, weekly)) @@ goals
    IN /\ IF IsNone(u)
          THEN /\ last' = Command("goal_set", "BadParameter", None, 0, None)
               /\ UNCHANGED <<goals, lastSet>>
          ELSE IF GoalsUnique(g)
          THEN /\ goals' = g
               /\ lastSet' = (u[1] :> <<daily, weekly>>) @@ lastSet
               /\ last' = Command("goal_set", "set", None, id, None)
          ELSE /\ last' = Command("goal_set", "IntegrityError", None, 0, None)
               /\ UNCHANGED <<goals, lastSet>>
       /\ UNCHANGED <<users, entries, pending, active, inserted>>

\* min(100, (total_calories / goal.daily_calories) * 100) of report_daily, not
\* rounded: the fraction num / den of a percent
ReportPercentage(total_calories, daily_calories) ==
    IF daily_calories > 0 /\ total_calories >= daily_calories
    THEN [num |-> 100, den |-> 1]
    ELSE [num |-> total_calories * 100, den |-> daily_calories]

\* cli.report_daily(user, date_str), date_str a well-formed date: how the
\* command ends and the figures it has computed and echoed by then
report_daily(user, report_date) ==
    LET u == UserByName(user)
        rows == {i \in DOMAIN entries :
                    /\ entries[i].user_id = u[1]
                    /\ entries[i].date = report_date}
        goal == FirstGoal(goals, u[1])
        total_calories == CaloriesOf(rows)
        daily == goals[goal[1]].daily_calories
        nothing == [res |-> "none", total_calories |-> None, remaining |-> None,
                    percentage |-> None]
    IN IF IsNone(u) THEN [nothing EXCEPT !.res = "BadParameter"]
       ELSE IF rows = {} THEN [nothing EXCEPT !.res = "No entries for this date"]
       ELSE IF IsNone(goal)
       THEN [nothing EXCEPT !.res = "report", !.total_calories = Some(total_calories)]
       ELSE IF IsNone(daily)
       THEN [nothing EXCEPT !.res = "TypeError",
                            !.total_calories = Some(total_calories)]
       ELSE IF daily[1] = 0
       THEN [nothing EXCEPT !.res = "ZeroDivisionError",
                            !.total_calories = Some(total_calories)]
       ELSE [res |-> "report",
             total_calories |-> Some(total_calories),
             remaining |-> Some(daily[1] - total_calories),
             percentage |-> Some(ReportPercentage(total_calories, daily[1]))]

\* ---------------------------------------------------------------- specifications
Init ==
    /\ users = EmptyFn
    /\ entries = EmptyFn
    /\ goals = EmptyFn
    /\ pending = EmptyFn
    /\ active = TRUE
    /\ lastSet = EmptyFn
    /\ inserted = <<>>
    /\ last = NoCall

\* The food-log service over one session: user 1 logs meals, both users try to
\* update and delete them, every field is varied; one goal is set.
Next ==
    \/ \E f \in FoodNames, c \in LogCals, d \in Opt(Dates) : log_meal(1, f, c, d)
    \/ \E i \in 1 .. MaxId, u \in UserIds, f \in Opt(FoodNames),
          c \in Opt(LogCals), d \in Opt(Dates) :
          update_entry(i, u, f, c, d)
    \/ \E i \in 1 .. MaxId, u \in UserIds : delete_entry(i, u)
    \/ set_goals(1, 3, 5)
    \/ rollback

Spec == Init /\ [][Next]_vars

\* The goal rows: every user sets every goal, between food-log calls that
\* succeed, fail and leave unflushed changes behind.
NextGoals ==
    \/ \E u \in UserIds, g \in GoalInputs : set_goals(u, g[1], g[2])
    \/ \E c \in LogCals : log_meal(1, "apple", c, None)
    \/ \E i \in 1 .. MaxId, u \in UserIds, c \in Opt(LogCals) :
          update_entry(i, u, Some("bread"), c, None)
    \/ \E i \in 1 .. MaxId, u \in UserIds : delete_entry(i, u)
    \/ rollback

SpecGoals == Init /\ [][NextGoals]_vars

\* The progress of user 1 against every goal, over entries of both users whose
\* calories and dates vary.
NextProgress ==
    \/ \E g \in GoalInputs : set_goals(1, g[1], g[2])
    \/ \E u \in UserIds, c \in ProgressCals, d \in Opt(Dates) :
          log_meal(u, "apple", c, d)
    \/ \E i \in 1 .. MaxId, u \in UserIds, c \in Opt(ProgressCals),
          d \in Opt(Dates) :
          update_entry(i, u, None, c, d)
    \/ \E i \in 1 .. MaxId, u \in UserIds : delete_entry(i, u)
    \/ rollback

SpecProgress == Init /\ [][NextProgress]_vars

\* The week of user 1 against every weekly goal: entries of both users on the
\* day before the week, its first day, its last day and the day after it.
NextWeekly ==
    \/ \E g \in WeeklyGoals : set_goals(1, g[1], g[2])
    \/ \E u \in UserIds, c \in WeekCals, d \in WeekDates :
          log_meal(u, "apple", c, Some(d))
    \/ \E i \in 1 .. MaxId, u \in UserIds, d \in WeekDates :
          update_entry(i, u, None, None, Some(d))
    \/ \E i \in 1 .. MaxId, u \in UserIds : delete_entry(i, u)

SpecWeekly == Init /\ [][NextWeekly]_vars

\* The commands and the services side by side: entries are added, updated and
\* deleted through the commands and through the services' session; the
\* commands name a user that exists and one that does not, the services log
\* for user 1 and update and delete as both users.
NextCli ==
    \/ user_create("ann")
    \/ \E n \in Names, c \in LogCals : entry_add(n, "apple", c, None)
    \/ \E i \in 1 .. MaxId, f \in Opt({"bread"}), c \in Opt(CliCals),
          d \in Opt({Today}) :
          entry_update(i, f, c, d)
    \/ \E i \in 1 .. MaxId : entry_delete(i)
    \/ \E c \in LogCals : log_meal(1, "apple", c, None)
    \/ \E i \in 1 .. MaxId, u \in UserIds, c \in Opt(LogCals) :
          update_entry(i, u, Some("bread"), c, None)
    \/ \E i \in 1 .. MaxId, u \in UserIds : delete_entry(i, u)
    \/ rollback

SpecCli == Init /\ [][NextCli]_vars

\* The meal plan for every budget around the thresholds of its table, over a
\* store that holds entries or none.
NextPlan ==
    \/ \E u \in UserIds, t \in Targets, e \in Existing :
          suggest_meal_plan(u, Today, t, e)
    \/ log_meal(1, "apple", 1, None)
    \/ \E i \in 1 .. MaxId : delete_entry(i, 1)

SpecPlan == Init /\ [][NextPlan]_vars

\* Users, their goals and their entries: users are created by name, goals are
\* set through the command and through the service, the services log, move
\* and delete entries for user ids that exist and user ids that do not.
NextUsers ==
    \/ \E n \in Names : user_create(n)
    \/ \E g \in GoalInputs : goal_set("ann", g[1], g[2])
    \/ set_goals(2, 3, 5)
    \/ \E u \in UserIds, c \in WeekCals : log_meal(u, "apple", c, None)
    \/ \E i \in 1 .. MaxId, u \in UserIds :
          update_entry(i, u, None, None, Some(SetMin(Dates)))
    \/ \E i \in 1 .. MaxId, u \in UserIds : delete_entry(i, u)

SpecUsers == Init /\ [][NextUsers]_vars

\* Two users on one session: both log meals, set goals, and update and delete
\* entries, their own and each other's, with calories that pass and calories
\* that are rejected.
NextIsolation ==
    \/ \E u \in UserIds, c \in LogCals : log_meal(u, "apple", c, None)
    \/ \E i \in 1 .. MaxId, u \in UserIds, c \in Opt(LogCals) :
          update_entry(i, u, Some("bread"), c, None)
    \/ \E i \in 1 .. MaxId, u \in UserIds : delete_entry(i, u)
    \/ \E u \in UserIds : set_goals(u, 3, 5)
    \/ rollback

SpecIsolation == Init /\ [][NextIsolation]_vars

\* ---------------------------------------------------------------- properties
\* the entry the last call names is one its caller does not own, or is absent
NotOwnedBefore(call) ==
    \/ call.id \notin DOMAIN entries
    \/ entries[call.id].user_id # call.user

\* C1: get_progress(user, date) totals the calories of exactly the stored
\* entries of that user and date, and for every goal row of the user whose
\* daily_calories is set, whatever its value (0 and negative included), it
\* returns remaining = max(0, daily - total), and the capped percentage when
\* daily > 0 and no percentage otherwise.
C1_ProgressOfEveryGoal ==
    \A u \in UserIds, d \in Dates :
        LET p == get_progress(u, d)
            total == CaloriesOf({i \in DOMAIN entries :
                                    entries[i].user_id = u /\ entries[i].date = d})
        IN /\ p.total_calories = total
           /\ \A i \in DOMAIN goals :
                 (goals[i].user_id = u /\ ~IsNone(goals[i].daily_calories)) =>
                    LET daily == goals[i].daily_calories[1]
                    IN /\ p.remaining = Some(Max(0, daily - total))
                       /\ p.progress_percentage =
                             IF daily > 0
                             THEN Some(Min(10000, Round2(total, daily)))
                             ELSE None

\* C2: for every user whose daily goal is positive and every date, get_progress
\* returns a percentage between 0 and 100 and a remaining amount >= 0, and
\* once the total reaches the goal, remaining = 0 and percentage = 100.
C2_PercentageCapped ==
    \A u \in UserIds, d \in Dates :
        LET g == get_goals(u)
            p == get_progress(u, d)
        IN (~IsNone(g) /\ ~IsNone(g[1].daily_calories)
               /\ g[1].daily_calories[1] > 0) =>
              /\ ~IsNone(p.progress_percentage)
              /\ p.progress_percentage[1] >= 0
              /\ p.progress_percentage[1] <= 10000
              /\ ~IsNone(p.remaining)
              /\ p.remaining[1] >= 0
              /\ (p.total_calories >= g[1].daily_calories[1] =>
                     /\ p.remaining = Some(0)
                     /\ p.progress_percentage = Some(10000))

\* a user has eaten more than a positive daily goal
C2_OverGoal ==
    \E u \in UserIds, d \in Dates :
        LET g == get_goals(u)
            p == get_progress(u, d)
        IN /\ ~IsNone(g)
           /\ g[1].daily_calories[1] > 0
           /\ p.total_calories > g[1].daily_calories[1]
           /\ p.remaining = Some(0)
           /\ p.progress_percentage = Some(10000)

\* C3: a log_meal call, or an update_entry call on an entry its caller owns,
\* that supplies calories < 0 raises ValueError and leaves every stored row as
\* it was: none is created, none is changed.
C3_NegativeRejected ==
    [][(/\ last'.op \in {"log_meal", "update_entry"}
        /\ ~IsNone(last'.cal)
        /\ last'.cal[1] < 0)
       => (/\ last'.res = "ValueError"
           /\ entries' = entries
           /\ goals' = goals
           /\ users' = users)]_vars

\* update_entry has rejected negative calories for an entry of its caller
C3_UpdateRejected ==
    /\ last.op = "update_entry"
    /\ last.res = "ValueError"
    /\ last.cal = Some(-1)
    /\ last.id \in DOMAIN entries
    /\ entries[last.id].user_id = last.user

\* C4: a food name that an update_entry call supplied before it raised its
\* validation error (the unflushed change it left in the session) is never
\* written to the stored entry: the entry's food_name changes only in an
\* update_entry call on that entry which succeeds and supplies the name itself.
C4_NoPartialWrites ==
    [][\A i \in DOMAIN pending \cap DOMAIN entries' :
          entries'[i].food_name # entries[i].food_name =>
             /\ last'.op = "update_entry"
             /\ last'.id = i
             /\ last'.res = "entry"
             /\ ~IsNone(last'.food)
             /\ entries'[i].food_name = last'.food[1]]_vars

\* C5: log_meal with calories >= 0 (0 included) succeeds: it adds exactly one
\* row under a fresh id and returns it, with the food name, calories and
\* user_id of the call and its date, or today when the call gave none.
C5_LogMealSucceeds ==
    [][(/\ last'.op = "log_meal"
        /\ ~IsNone(last'.cal)
        /\ last'.cal[1] >= 0)
       => (/\ last'.res = "entry"
           /\ last'.id \notin DOMAIN entries
           /\ DOMAIN entries' = DOMAIN entries \cup {last'.id}
           /\ entries'[last'.id].food_name = last'.food[1]
           /\ entries'[last'.id].calories = last'.cal[1]
           /\ entries'[last'.id].user_id = last'.user
           /\ entries'[last'.id].date =
                 IF IsNone(last'.date) THEN Today ELSE last'.date[1])]_vars

\* C6: after every call, get_goals(user) returns the daily_calories and
\* weekly_calories of the last set_goals call for that user, and no call
\* changes the protein_goal, carb_goal or fat_goal of a goal row (set_goals
\* supplies none of them).
C6_RoundTrip ==
    [][/\ \A u \in DOMAIN lastSet' :
             LET g == get_goals(u)'
             IN /\ ~IsNone(g)
                /\ g[1].user_id = u
                /\ g[1].daily_calories = Some(lastSet'[u][1])
                /\ g[1].weekly_calories = Some(lastSet'[u][2])
       /\ \A i \in DOMAIN goals \cap DOMAIN goals' :
             /\ goals'[i].protein_goal = goals[i].protein_goal
             /\ goals'[i].carb_goal = goals[i].carb_goal
             /\ goals'[i].fat_goal = goals[i].fat_goal]_vars

\* set_goals has just set again the goal of the user who set one first, both
\* users have a goal and the two goals differ
C6_SetAgain ==
    /\ last.op = "set_goals"
    /\ last.res = "goal"
    /\ last.id = 1
    /\ DOMAIN goals = {1, 2}
    /\ DOMAIN lastSet = {1, 2}
    /\ lastSet[1] # lastSet[2]

\* C7: no two goal rows have the same user_id; the first set_goals of a user
\* adds one row for that user, every later one returns that same row, updated
\* in place, and adds none; no other call touches the goal rows.
C7_OneGoalPerUser ==
    [][/\ \A i, j \in DOMAIN goals' :
             goals'[i].user_id = goals'[j].user_id => i = j
       /\ last'.op = "set_goals" =>
             LET had == {i \in DOMAIN goals : goals[i].user_id = last'.user}
             IN /\ last'.res = "goal"
                /\ goals'[last'.id].user_id = last'.user
                /\ \A i \in DOMAIN goals \ had : goals'[i] = goals[i]
                /\ IF had = {}
                   THEN /\ last'.id \notin DOMAIN goals
                        /\ DOMAIN goals' = DOMAIN goals \cup {last'.id}
                   ELSE /\ last'.id \in had
                        /\ DOMAIN goals' = DOMAIN goals
       /\ last'.op # "set_goals" => goals' = goals]_vars

\* set_goals has updated the row of the user who set a goal first, while the
\* other user has a goal and food entries are stored
C7_UpdatedInPlace ==
    /\ last.op = "set_goals"
    /\ last.res = "goal"
    /\ last.id = 1
    /\ DOMAIN goals = {1, 2}
    /\ entries # EmptyFn

\* C8: update_entry and delete_entry on an entry that is absent, or that
\* another user owns, return None and False, raise nothing and leave every
\* stored row and the session as they were.
C8_Ownership ==
    [][(/\ last'.op \in {"update_entry", "delete_entry"}
        /\ NotOwnedBefore(last'))
       => (/\ last'.res = IF last'.op = "update_entry" THEN "None" ELSE "False"
           /\ entries' = entries
           /\ goals' = goals
           /\ users' = users
           /\ pending' = pending
           /\ active' = active)]_vars

\* delete_entry has returned False for a stored entry of another user
C8_ForeignDelete ==
    /\ last.op = "delete_entry"
    /\ last.res = "False"
    /\ last.id \in DOMAIN entries
    /\ entries[last.id].user_id # last.user

\* C9: delete_entry on an entry of its caller returns True and removes exactly
\* that row, every other row unchanged; on an absent entry (as after the first
\* delete) it returns False and changes nothing.
C9_DeleteIdempotent ==
    [][last'.op = "delete_entry" =>
          IF NotOwnedBefore(last')
          THEN /\ last'.res = "False"
               /\ entries' = entries
          ELSE /\ last'.res = "True"
               /\ entries' = [i \in DOMAIN entries \ {last'.id} |-> entries[i]]]_vars

\* C10: update_entry on an entry of its caller with calories >= 0 (0 included)
\* or none succeeds, overwrites exactly the fields it supplies with the values
\* supplied and leaves the other fields, the id, the user_id, every other entry
\* and every goal unchanged.
C10_UpdateFrame ==
    [][(/\ last'.op = "update_entry"
        /\ ~NotOwnedBefore(last')
        /\ (IsNone(last'.cal) \/ last'.cal[1] >= 0))
       => (/\ last'.res = "entry"
           /\ goals' = goals
           /\ entries' = [entries EXCEPT ![last'.id] =
                 [@ EXCEPT
                    !.food_name = IF IsNone(last'.food) THEN @ ELSE last'.food[1],
                    !.calories = IF IsNone(last'.cal) THEN @ ELSE last'.cal[1],
                    !.date = IF IsNone(last'.date) THEN @ ELSE last'.date[1]]])]_vars

\* C11: get_weekly_progress(user, start) totals the calories of exactly the
\* stored entries of that user whose date d has start <= d <= start + 6, and
\* for every goal row of the user whose weekly_calories is set it returns, by
\* the rules of the daily progress, remaining = max(0, weekly - total), and
\* the capped percentage when weekly > 0 and no percentage otherwise.
C11_WeeklyProgress ==
    \A u \in UserIds, s \in WeekStarts :
        LET p == get_weekly_progress(u, s)
            total == CaloriesOf({i \in DOMAIN entries :
                                    /\ entries[i].user_id = u
                                    /\ s <= entries[i].date
                                    /\ entries[i].date <= s + 6})
        IN /\ p.total_calories = total
           /\ \A i \in DOMAIN goals :
                 (goals[i].user_id = u /\ ~IsNone(goals[i].weekly_calories)) =>
                    LET weekly == goals[i].weekly_calories[1]
                    IN /\ p.remaining = Some(Max(0, weekly - total))
                       /\ p.progress_percentage =
                             IF weekly > 0
                             THEN Some(Min(10000, Round2(total, weekly)))
                             ELSE None

\* C12: every stored entry has calories >= 0 after every service call and
\* every command, and a log_meal, update_entry, entry_add or entry_update that
\* supplies calories < 0 is rejected before anything is written: by the
\* validation (ValueError) when it comes to the entry, as an unknown user or
\* an entry not found otherwise; the stored rows stay as they were.
C12_CaloriesNonNegative ==
    [][/\ \A i \in DOMAIN entries' : entries'[i].calories >= 0
       /\ (/\ last'.op \in {"log_meal", "update_entry", "entry_add", "entry_update"}
           /\ ~IsNone(last'.cal)
           /\ last'.cal[1] < 0)
          => (/\ last'.res \in {"ValueError", "BadParameter", "not found"}
              /\ entries' = entries)]_vars

\* the command entry_update has been refused negative calories for a stored
\* entry, after the command entry_add has stored one
C12_CommandRejected ==
    /\ last.op = "entry_update"
    /\ last.res = "ValueError"
    /\ last.cal = Some(-1)
    /\ last.id \in DOMAIN entries
    /\ users # EmptyFn
    /\ entries[last.id].calories > 0

\* the stored entries of a user
EntriesOf(u) == {i \in DOMAIN entries : entries[i].user_id = u}

\* entry i is later than entry j by (date, id)
Later(i, j) ==
    \/ entries[i].date > entries[j].date
    \/ entries[i].date = entries[j].date /\ i > j

\* the set of the elements of a sequence
Range(s) == {s[k] : k \in 1 .. Len(s)}

\* C13: get_recent_logs(user, limit) returns min(limit, number of the user's
\* entries) entries, all of the user, each strictly later by (date, id) than
\* the next (so two of the same date are in descending id order), and every
\* entry of the user it leaves out is earlier than every one it returns.
C13_RecentLogs ==
    \A u \in UserIds, limit \in Limits :
        LET r == get_recent_logs(u, limit)
        IN /\ Len(r) = Min(limit, Cardinality(EntriesOf(u)))
           /\ Range(r) \subseteq EntriesOf(u)
           /\ \A k \in 1 .. Len(r) - 1 : Later(r[k], r[k + 1])
           /\ \A k, l \in 1 .. Len(r) :
                 (k < l /\ entries[r[k]].date = entries[r[l]].date) => r[k] > r[l]
           /\ \A j \in EntriesOf(u) \ Range(r), k \in 1 .. Len(r) : Later(r[k], j)

\* a user has two entries, the one with the smaller id on the later date, and
\* the most recent one is that one
C13_DateBeforeId ==
    \E u \in UserIds :
        /\ EntriesOf(u) = {1, 2}
        /\ entries[1].date > entries[2].date
        /\ get_recent_logs(u, 1) = <<1>>
        /\ get_recent_logs(u, 2) = <<1, 2>>

\* C14: get_logs_in_range(user, start, end) returns each stored entry of the
\* user with start <= date <= end once and nothing else, in ascending order of
\* date and, within a date, of id; it is empty when start > end.
C14_LogsInRange ==
    \A u \in UserIds, start, end \in RangeDays :
        LET r == get_logs_in_range(u, start, end)
            in == {i \in EntriesOf(u) :
                      start <= entries[i].date /\ entries[i].date <= end}
        IN /\ Range(r) = in
           /\ Len(r) = Cardinality(in)
           /\ \A k \in 1 .. Len(r) - 1 : Later(r[k + 1], r[k])
           /\ start > end => r = <<>>

\* a user has an entry on each of two days, the later day under the smaller
\* id: the range of the two days lists them by date, the range of one day
\* lists that day's entry, the range that ends before it starts lists none
C14_BothEnds ==
    \E u \in UserIds, d \in Dates :
        /\ EntriesOf(u) = {1, 2}
        /\ entries[1].date = d + 1
        /\ entries[2].date = d
        /\ get_logs_in_range(u, d, d + 1) = <<2, 1>>
        /\ get_logs_in_range(u, d, d) = <<2>>
        /\ get_logs_in_range(u, d + 1, d + 1) = <<1>>
        /\ get_logs_in_range(u, d + 1, d) = <<>>

\* C15: get_daily_logs(user, date) returns exactly the stored entries of that
\* user and date, in ascending order of id, and that is the order in which
\* they were inserted.
C15_DailyLogs ==
    \A u \in UserIds, d \in Dates :
        LET r == get_daily_logs(u, d)
            on == {i \in EntriesOf(u) : entries[i].date = d}
        IN /\ Range(r) = on
           /\ Len(r) = Cardinality(on)
           /\ \A k \in 1 .. Len(r) - 1 : r[k] < r[k + 1]
           /\ r = Restrict(inserted, on)

\* update_entry has moved the entry inserted first to the day of an entry
\* inserted later, and the day lists it first
C15_MovedToDay ==
    /\ last.op = "update_entry"
    /\ last.res = "entry"
    /\ ~IsNone(last.date)
    /\ Len(get_daily_logs(last.user, last.date[1])) = 2
    /\ get_daily_logs(last.user, last.date[1])[1] = last.id
    /\ inserted = <<last.id, get_daily_logs(last.user, last.date[1])[2]>>

\* C16: get_weekly_nutrition(user, start) raises nothing and returns the 7
\* days start .. start + 6, each with the total calories and the count of
\* exactly the user's entries of that day, and with no meal type on a day
\* without entries.
C16_WeeklyNutrition ==
    \A u \in UserIds, s \in WeekStarts :
        LET r == get_weekly_nutrition(u, s)
            on(d) == {i \in EntriesOf(u) : entries[i].date = d}
        IN /\ IsNone(r.raised)
           /\ DOMAIN r.weekly_data = s .. s + 6
           /\ \A d \in s .. s + 6 :
                 /\ r.weekly_data[d].meal_count = Cardinality(on(d))
                 /\ r.weekly_data[d].total_calories = SumCalories(SortedIds(on(d)))
                 /\ on(d) = {} => r.weekly_data[d].meal_types = {}

\* C17: suggest_meal_plan leaves the store as it is and returns what its table
\* gives for remaining = calorie_target - existing_calories: breakfast 300 if
\* remaining >= 1600 else 200, lunch 450 if remaining >= 1200 else 350, dinner
\* 550 if remaining >= 700 else 400, snack 150 (almonds if remaining > 200,
\* else apple slices), and, exactly when the four add up to more than
\* remaining, each of them replaced by 80% of it, truncated, once.
C17_MealPlan ==
    [][last'.op = "suggest_meal_plan" =>
          LET remaining == last'.calorie_target - last'.existing_calories
              b == IF remaining >= 1600 THEN 300 ELSE 200
              l == IF remaining >= 1200 THEN 450 ELSE 350
              d == IF remaining >= 700 THEN 550 ELSE 400
              over == b + l + d + 150 > remaining
              r == last'.res
          IN /\ r.snack.suggestion = IF remaining > 200 THEN "Handful of almonds"
                                     ELSE "Apple slices"
             /\ ~over => /\ r.breakfast.estimated_calories = b
                         /\ r.lunch.estimated_calories = l
                         /\ r.dinner.estimated_calories = d
                         /\ r.snack.estimated_calories = 150
             /\ over => /\ r.breakfast.estimated_calories = (4 * b) \div 5
                        /\ r.lunch.estimated_calories = (4 * l) \div 5
                        /\ r.dinner.estimated_calories = (4 * d) \div 5
                        /\ r.snack.estimated_calories = 120
             /\ UNCHANGED <<users, entries, goals, pending, active, inserted>>]_vars

\* a plan whose suggestions add up to the remaining budget exactly has been
\* returned unscaled, over a store that holds an entry
C17_JustFits ==
    /\ last.op = "suggest_meal_plan"
    /\ last.calorie_target - last.existing_calories = 1350
    /\ last.res.breakfast.estimated_calories = 200
    /\ last.res.lunch.estimated_calories = 450
    /\ last.res.dinner.estimated_calories = 550
    /\ last.res.snack.estimated_calories = 150
    /\ entries # EmptyFn

\* C18: no two users have the same name; user_create with a name that a user
\* has is refused before any write (the users stay as they are), user_create
\* with a new name adds exactly one user, under an id no user had; it changes
\* no entry and no goal, and no other call changes the users.
C18_UniqueNames ==
    [][/\ \A i, j \in DOMAIN users' : users'[i] = users'[j] => i = j
       /\ last'.op = "user_create" =>
             /\ IF \E i \in DOMAIN users : users[i] = last'.name[1]
                THEN /\ last'.res = "exists"
                     /\ users' = users
                ELSE /\ last'.res = "created"
                     /\ last'.id \notin DOMAIN users
                     /\ DOMAIN users' = DOMAIN users \cup {last'.id}
                     /\ users'[last'.id] = last'.name[1]
                     /\ \A i \in DOMAIN users : users'[i] = users[i]
             /\ entries' = entries
             /\ goals' = goals
       /\ last'.op # "user_create" => users' = users]_vars

\* user_create has been refused the name of the first of two users, while
\* entries and a goal are stored
C18_DuplicateRefused ==
    /\ last.op = "user_create"
    /\ last.res = "exists"
    /\ DOMAIN users = {1, 2}
    /\ users[1] = last.name[1]
    /\ entries # EmptyFn
    /\ goals # EmptyFn

\* C19: for every user that exists and every date, the remaining calories and
\* the percentage that report_daily computes are those of get_progress:
\* remaining = max(0, daily - total), the percentage rounded to 2 decimals and
\* capped at 100, also on a date without entries and for a daily goal of 0.
C19_ReportParity ==
    \A n \in Names, d \in Dates :
        ~IsNone(UserByName(n)) =>
           LET p == get_progress(UserByName(n)[1], d)
               r == report_daily(n, d)
           IN /\ r.res \notin {"ZeroDivisionError", "TypeError"}
              /\ r.remaining = p.remaining
              /\ IsNone(r.percentage) = IsNone(p.progress_percentage)
              /\ ~IsNone(r.percentage) =>
                    r.percentage[1].num * 100
                       = p.progress_percentage[1] * r.percentage[1].den

\* C20: the user_id of every stored entry and of every stored goal is the id
\* of a stored user, and only user_create changes the users.
C20_ReferentialIntegrity ==
    [][/\ \A i \in DOMAIN entries' : entries'[i].user_id \in DOMAIN users'
       /\ \A i \in DOMAIN goals' : goals'[i].user_id \in DOMAIN users'
       /\ last'.op # "user_create" => users' = users]_vars

\* the total_calories of get_progress(u, d), added up over the days from .. to
RECURSIVE DailyTotals(_, _, _)
DailyTotals(u, from, to) ==
    IF from > to THEN 0
    ELSE get_progress(u, from).total_calories + DailyTotals(u, from + 1, to)

\* C21: for every user and start date, the total_calories of
\* get_weekly_progress(user, start) is the sum of the total_calories of
\* get_progress(user, d) over the 7 days d = start .. start + 6, and every
\* stored entry of the user in those days is in the weekly query once and in
\* the daily query of exactly one of the days, its own.
C21_WeeklyIsSumOfDaily ==
    \A u \in UserIds, s \in WeekStarts :
        LET week == get_logs_in_range(u, s, WeekEnd(s))
            window == {i \in EntriesOf(u) :
                          s <= entries[i].date /\ entries[i].date <= s + 6}
        IN /\ get_weekly_progress(u, s).total_calories = DailyTotals(u, s, s + 6)
           /\ \A i \in window :
                 /\ Cardinality({k \in 1 .. Len(week) : week[k] = i}) = 1
                 /\ \A d \in s .. s + 6 :
                       LET day == get_daily_logs(u, d)
                       IN Cardinality({k \in 1 .. Len(day) : day[k] = i})
                             = IF entries[i].date = d THEN 1 ELSE 0

\* a user has an entry on the last day of the week that starts on day 1 and
\* one on the day after it: the first week counts the one, the week that
\* starts a day later counts both
C21_LastDayAndDayAfter ==
    \E u \in UserIds :
        /\ EntriesOf(u) = {1, 2}
        /\ entries[1].date = 7
        /\ entries[2].date = 8
        /\ get_weekly_progress(u, 1).total_calories = entries[1].calories
        /\ get_weekly_progress(u, 2).total_calories
              = entries[1].calories + entries[2].calories

\* what the six queries return for user b, for every argument
ResultsFor(b) ==
    [daily |-> [d \in Dates |-> Loaded(get_daily_logs(b, d))],
     range |-> [se \in RangeDays \X RangeDays |->
                  Loaded(get_logs_in_range(b, se[1], se[2]))],
     recent |-> [n \in Limits |-> Loaded(get_recent_logs(b, n))],
     goals |-> get_goals(b),
     progress |-> [d \in Dates |-> get_progress(b, d)],
     weekly |-> [d \in Dates |-> get_weekly_progress(b, d)]]

\* C22: a log_meal, update_entry, delete_entry or set_goals call made with
\* the user_id of one user leaves what get_daily_logs, get_logs_in_range,
\* get_recent_logs, get_goals, get_progress and get_weekly_progress return
\* for every other user as it was before the call.
C22_UserIsolation ==
    [][last'.op \in {"log_meal", "update_entry", "delete_entry", "set_goals"} =>
          \A b \in UserIds \ {last'.user} : ResultsFor(b)' = ResultsFor(b)]_vars
====
